---- MODULE Spec2Model ----
(***************************************************************************)
(* A model of src/MyChatBot.py: the instruction-guided rewrite of one file *)
(* (edit_file_with_instructions), the walk over a zip archive              *)
(* (edit_zip_with_instructions) and the re-packaging of a name -> text     *)
(* mapping (make_zip_from_dict), each stepped through under Spec; and the  *)
(* script itself, one action per script run, under SpecUI: Streamlit runs  *)
(* the script top to bottom on every widget event, st.session_state being  *)
(* what one run leaves to the next.                                        *)
(*                                                                         *)
(* Text is kept run-length encoded: a text is a sequence of runs           *)
(* [c |-> character, n |-> count], no run empty, no two neighbouring runs  *)
(* of the same character.  This keeps the program's real length ceiling    *)
(* (120000 characters) within reach of the model checker.  Raw bytes are   *)
(* run-length encoded the same way, a run's c being one byte unit: an      *)
(* ASCII byte, the byte 0xFF (never valid in UTF-8) or the three bytes     *)
(* EF BF BD (the UTF-8 form of U+FFFD).                                    *)
(***************************************************************************)
EXTENDS Integers, Sequences, FiniteSets, TLC

VARIABLES
    mode,          \* what is exercised: "file", "zip", "files", "pack", or "ui" (the script)
    client,        \* TRUE iff an API key was given (client is not None)
    instructions,  \* the text of the "Editing instructions" area
    file_text,     \* the argument of a direct edit_file_with_instructions call
    zip_bytes,     \* the argument of edit_zip_with_instructions
    file_names,    \* st.session_state.file_names, as the uploads left it
    file_contents, \* st.session_state.file_contents, as the uploads left it
    file_dict,     \* the argument of make_zip_from_dict
    pc,            \* position of the running call
    idx,           \* position of the loop over zf.namelist() / file_dict.items()
    edited,        \* the value the last edit_file_with_instructions call returned
    edited_files,  \* the dict edit_zip_with_instructions builds
    inflight,      \* requests handed to client.chat.completions.create, not yet answered
    sent,          \* history: every request issued, in order, with the entry it is for
    last,          \* history: the latest response of the service and what became of it
    trail,         \* history: one record per loop iteration finished
    warnings,      \* names reported by st.warning("Could not process ...")
    mem_zip,       \* the container make_zip_from_dict writes
    reread,        \* the (name, text) pairs read back from mem_zip
    dict0,         \* history: file_dict as the first make_zip_from_dict call received it
    extracts,      \* history: what was read back from each container written so far
    uploaded_files,\* what the file_uploader widget holds
    st_ace,        \* TRUE iff streamlit_ace can be imported
    is_zip,        \* st.session_state.is_zip
    zip_file_list, \* st.session_state.zip_file_list
    zip_preview,   \* st.session_state.zip_preview
    selected_file, \* st.session_state.selected_file
    edited_zip,    \* st.session_state.edited_zip
    edited_content,\* st.session_state.edited_content
    chat_history,  \* st.session_state.chat_history
    script         \* history: the widget event of the latest script run and how far it got

uiVars == <<uploaded_files, st_ace, is_zip, zip_file_list, zip_preview, selected_file,
            edited_zip, edited_content, chat_history, script>>

vars == <<mode, client, instructions, file_text, zip_bytes, file_names, file_contents,
          file_dict, pc, idx,
          edited, edited_files, inflight, sent, last, trail, warnings, mem_zip, reread,
          dict0, extracts, uiVars>>

(***************************************************************************)
(* Bounds of the model and constants of the program                        *)
(***************************************************************************)
MaxEntries == 3

MaxDict == 2

max_chars == 120000

(***************************************************************************)
(* Text and bytes                                                          *)
(***************************************************************************)
Run(c, n) == [c |-> c, n |-> n]

RECURSIVE len(_)
len(t) == IF t = <<>> THEN 0 ELSE Head(t).n + len(Tail(t))

\* Joins neighbouring runs of one character: the text of a sequence of runs.
RECURSIVE Merge(_)
Merge(t) ==
    IF Len(t) < 2 THEN t
    ELSE IF t[1].c = t[2].c
         THEN Merge(<<Run(t[1].c, t[1].n + t[2].n)>> \o SubSeq(t, 3, Len(t)))
         ELSE <<t[1]>> \o Merge(Tail(t))

IsSpace(c) == c = " "

RECURSIVE lstrip(_)
lstrip(t) == IF t # <<>> /\ IsSpace(Head(t).c) THEN lstrip(Tail(t)) ELSE t

RECURSIVE rstrip(_)
rstrip(t) ==
    IF t # <<>> /\ IsSpace(t[Len(t)].c) THEN rstrip(SubSeq(t, 1, Len(t) - 1)) ELSE t

\* str.strip()
strip(t) == rstrip(lstrip(t))

\* One byte unit of raw.decode("utf-8", errors="replace"): an invalid byte
\* becomes U+FFFD, and so does the valid encoding of U+FFFD itself.
DecodeUnit(b) == IF b \in {"FF", "EFBFBD"} THEN "U+FFFD" ELSE b

\* A decoder that refuses invalid bytes, as errors="strict" would.
DecodeFailsStrict(raw) == \E k \in 1..Len(raw) : raw[k].c = "FF"

\* Whether raw.decode("utf-8", errors="replace") raises: it never does, so the
\* "except Exception: continue" around it is never taken.
DecodeFails(raw) == FALSE

\* raw.decode("utf-8", errors="replace")
decode(raw) == Merge([k \in 1..Len(raw) |-> Run(DecodeUnit(raw[k].c), raw[k].n)])

EncodeChar(c) == IF c = "U+FFFD" THEN "EFBFBD" ELSE c

\* An encoder that knows ASCII only and writes "?" for the rest.
encodeAscii(t) ==
    Merge([k \in 1..Len(t) |-> Run(IF t[k].c = "U+FFFD" THEN "?" ELSE t[k].c, t[k].n)])

\* str.encode("utf-8"), as ZipFile.writestr applies it to a str.
encode(t) == [k \in 1..Len(t) |-> Run(EncodeChar(t[k].c), t[k].n)]

(***************************************************************************)
(* Ordered dicts: a sequence of [name, text] items with distinct names     *)
(***************************************************************************)
Item(name, text) == [name |-> name, text |-> text]

Keys(d) == [k \in 1..Len(d) |-> d[k].name]

KeySet(d) == {d[k].name : k \in 1..Len(d)}

Get(d, name) == (CHOOSE k \in 1..Len(d) : d[k].name = name)

\* A dict that puts a new key first.
DictSetFront(d, name, text) ==
    IF name \in KeySet(d)
    THEN [d EXCEPT ![Get(d, name)] = Item(name, text)]
    ELSE <<Item(name, text)>> \o d

\* d[name] = text: a new key goes last, a present key keeps its place.
DictSet(d, name, text) ==
    IF name \in KeySet(d)
    THEN [d EXCEPT ![Get(d, name)] = Item(name, text)]
    ELSE Append(d, Item(name, text))

(***************************************************************************)
(* The zip container, as zipfile shows it: the names in archive order      *)
(* (namelist), and per name the member getinfo/read resolve it to.  bad is *)
(* a byte string that is no zip file.                                      *)
(***************************************************************************)
FileNames == {"a.txt", "b.txt", "c.txt"}

DirNames == {"d/"}

Names == FileNames \cup DirNames

\* ZipInfo.is_dir(): the name ends with "/".
is_dir(name) == name \in DirNames

Member(readable, raw) == [readable |-> readable, raw |-> raw]

NoMember == Member(FALSE, <<>>)

Raws ==
    { <<>>, <<Run("a", 1)>>, <<Run("FF", 1)>>, <<Run("a", max_chars + 1)>> }

Members == {NoMember} \cup {Member(TRUE, r) : r \in Raws}

Zip(namelist, data) == [ok |-> TRUE, namelist |-> namelist, data |-> data]

BadZip == [ok |-> FALSE, namelist |-> <<>>, data |-> [n \in FileNames |-> NoMember]]

SeqsUpTo(S, n) == UNION {[1..k -> S] : k \in 0..n}

Range(s) == {s[k] : k \in 1..Len(s)}

NameOrder == <<"a.txt", "b.txt", "c.txt">>

First(s, x) == CHOOSE k \in 1..Len(s) : s[k] = x /\ \A j \in 1..(k - 1) : s[j] # x

\* The code looks at a name only to tell a directory from a file and to compare
\* it with other names, so archives are taken up to a renaming of their files:
\* the file names make their first appearances in the order of NameOrder.
InNameOrder(s) ==
    \A i \in 2..Len(NameOrder) :
        NameOrder[i] \in Range(s) =>
            /\ NameOrder[i - 1] \in Range(s)
            /\ First(s, NameOrder[i - 1]) < First(s, NameOrder[i])

\* Every archive of at most MaxEntries entries.  A name the archive does not list
\* has no member.
Archives ==
    {BadZip} \cup
    UNION { { Zip(nl, d) : d \in { e \in [FileNames -> Members] :
                                     \A n \in FileNames \ Range(nl) : e[n] = NoMember } }
            : nl \in {s \in SeqsUpTo(Names, MaxEntries) : InNameOrder(s)} }

\* zf.read(name): the bytes of the member, or an exception (an encrypted or
\* damaged member).
CanRead(zf, name) == zf.data[name].readable

read(zf, name) == zf.data[name].raw

(***************************************************************************)
(* The completion service                                                  *)
(***************************************************************************)
Choice(isnone, content) == [isnone |-> isnone, content |-> content]

Response(status, choices) == [status |-> status, choices |-> choices]

\* What client.chat.completions.create can do: raise, or return a response
\* with no choice, with a first choice whose content is None, "" or a text.
Responses ==
    { Response("error", <<>>),
      Response("ok", <<>>),
      Response("ok", <<Choice(TRUE, <<>>)>>),
      Response("ok", <<Choice(FALSE, <<>>)>>),
      Response("ok", <<Choice(FALSE, <<Run("b", 1)>>)>>),
      Response("ok", <<Choice(FALSE, <<Run(" ", 1)>>)>>) }

(***************************************************************************)
(* edit_file_with_instructions                                             *)
(***************************************************************************)
\* A rewrite that does not look at the client.
NeedKeyNever(cl) == FALSE

\* if not client
NeedKey(cl) == ~cl

\* if not file_text
NoContent(text) == text = <<>>

\* A ceiling that refuses the ceiling length itself.
TooLargeAtCeiling(text) == len(text) >= max_chars

\* if len(file_text) > max_chars
TooLarge(text) == len(text) > max_chars

\* The early returns before the request, in the order of the code.
Precheck(cl, text) ==
    IF NeedKey(cl) THEN "need_key"
    ELSE IF NoContent(text) THEN "no_content"
    ELSE IF TooLarge(text) THEN "too_large"
    ELSE "call"

\* The request: the system prompt, and a user prompt made of the stripped
\* instructions and the file between <FILE> and </FILE>.
EditRequest(text, instr) ==
    [ system      |-> "expert editor",
      instruction |-> strip(instr),
      file        |-> text,
      temperature |-> "0.2" ]

\* A reply that is tidied before it is returned.
EditReplyStripped(resp) ==
    IF resp.status = "error" THEN <<>>
    ELSE IF resp.choices = <<>> THEN <<>>
    ELSE IF resp.choices[1].isnone THEN <<>>
    ELSE strip(resp.choices[1].content)

\* return resp.choices[0].message.content or "", and "" from the except branch
\* (the call raised, or resp.choices[0] did).
EditReply(resp) ==
    IF resp.status = "error" THEN <<>>
    ELSE IF resp.choices = <<>> THEN <<>>
    ELSE IF resp.choices[1].isnone THEN <<>>
    ELSE resp.choices[1].content

(***************************************************************************)
(* Inputs                                                                  *)
(***************************************************************************)
\* The texts a direct call is given: empty, short, blank, one holding U+FFFD,
\* and three around the length ceiling.
Texts ==
    { <<>>, <<Run("a", 1)>>, <<Run(" ", 1)>>, <<Run("U+FFFD", 1)>>,
      <<Run("a", max_chars - 1)>>, <<Run("a", max_chars)>>, <<Run("a", max_chars + 1)>> }

\* The instruction texts: the widget's default, an emptied area, blanks only.
Instructions == { <<Run("a", 1)>>, <<>>, <<Run(" ", 1)>> }

PackTexts == { <<>>, <<Run("a", 1)>>, <<Run("U+FFFD", 1)>>, <<Run("a", 1), Run(" ", 1)>> }

HasDistinctKeys(d) == \A j, k \in 1..Len(d) : d[j].name = d[k].name => j = k

\* Every dict of at most MaxDict items.
Dicts ==
    { d \in SeqsUpTo({Item(n, t) : n \in FileNames, t \in PackTexts}, MaxDict) :
        HasDistinctKeys(d) }

\* The texts of uploaded files: blank, short, longer than the ceiling.
FileTexts == { <<Run(" ", 1)>>, <<Run("a", 1)>>, <<Run("a", max_chars + 1)>> }

NoContents == [n \in FileNames |-> <<>>]

\* The name lists and contents at most MaxEntries uploads leave behind (one
\* content per name: a later upload of a name replaces the earlier text).
UploadedNames == {s \in SeqsUpTo(FileNames, MaxEntries) : InNameOrder(s)}

UploadedContents(names) ==
    { c \in [FileNames -> FileTexts \cup {<<>>}] :
        \A n \in FileNames : (c[n] = <<>>) <=> (n \notin Range(names)) }

EmptyZip == Zip(<<>>, [n \in FileNames |-> NoMember])

\* None
None == "None"

\* [{"role": "system", "content": "You are a helpful chatbot assistant."}]
Message(role, content) == [role |-> role, content |-> content]

SystemMessage == Message("system", <<Run("You are a helpful chatbot assistant.", 1)>>)

\* A script run: the widget event that started it, how far it got ("chat":
\* st.rerun() in the Chatbot tab, "edit_chat": st.rerun() in the edit tab's
\* chat, "end"), whether a "Save (edited)" click was observed, and for a chat
\* message the message and the answer of the service.
Ran(event, reached, saved, msg, resp) ==
    [event |-> event, reached |-> reached, saved |-> saved, msg |-> msg, resp |-> resp]

\* No request was made.
NoAnswer == Response("none", <<>>)

NoRun == Ran("none", "end", FALSE, <<>>, NoAnswer)

\* The uploader empty and the session keys the script fills in on its first
\* run, apart from those the entry point under test is given.
SessionDefaults ==
    /\ uploaded_files = <<>>
    /\ is_zip = FALSE
    /\ zip_file_list = <<>>
    /\ zip_preview = <<>>
    /\ selected_file = None
    /\ edited_zip = <<>>
    /\ edited_content = <<>>
    /\ chat_history = <<SystemMessage>>
    /\ script = NoRun

NoLast == [idx |-> -1, resp |-> Response("error", <<>>), edited |-> <<>>]

Init ==
    /\ mode \in {"file", "zip", "files", "pack"}
    /\ client \in (IF mode = "pack" THEN {FALSE} ELSE BOOLEAN)
    /\ instructions \in (IF mode = "pack" THEN {<<>>} ELSE Instructions)
    /\ file_text \in (IF mode = "file" THEN Texts ELSE {<<>>})
    /\ zip_bytes \in (IF mode = "zip" THEN Archives ELSE {BadZip})
    /\ file_names \in (IF mode = "files" THEN UploadedNames ELSE {<<>>})
    /\ file_contents \in (IF mode = "files" THEN UploadedContents(file_names)
                                              ELSE {NoContents})
    /\ file_dict \in (IF mode = "pack" THEN Dicts ELSE {<<>>})
    /\ pc = "start"
    /\ idx = 0
    /\ edited = <<>>
    /\ edited_files = <<>>
    /\ inflight = {}
    /\ sent = <<>>
    /\ last = NoLast
    /\ trail = <<>>
    /\ warnings = <<>>
    /\ mem_zip = EmptyZip
    /\ reread = <<>>
    /\ dict0 = file_dict
    /\ extracts = <<>>
    /\ st_ace = FALSE
    /\ SessionDefaults

(***************************************************************************)
(* edit_file_with_instructions, called directly                            *)
(***************************************************************************)
Sent(i, req) == [idx |-> i, req |-> req]

Step(name, kind, text) == [name |-> name, kind |-> kind, edited |-> text]

\* One of the early returns: "" comes back and no request is made.
EditRefused ==
    /\ mode = "file" /\ pc = "start"
    /\ Precheck(client, file_text) # "call"
    /\ edited' = <<>>
    /\ trail' = Append(trail, Step("", Precheck(client, file_text), <<>>))
    /\ pc' = "done"
    /\ UNCHANGED <<uiVars, dict0, extracts, mode, client, instructions, file_text, zip_bytes, file_names,
                   file_contents, file_dict, idx,
                   edited_files, inflight, sent, last, warnings, mem_zip, reread>>

\* client.chat.completions.create is called and blocks.
EditCall ==
    /\ mode = "file" /\ pc = "start"
    /\ Precheck(client, file_text) = "call"
    /\ inflight' = inflight \cup {EditRequest(file_text, instructions)}
    /\ sent' = Append(sent, Sent(0, EditRequest(file_text, instructions)))
    /\ pc' = "wait"
    /\ UNCHANGED <<uiVars, dict0, extracts, mode, client, instructions, file_text, zip_bytes, file_names,
                   file_contents, file_dict, idx,
                   edited, edited_files, last, trail, warnings, mem_zip, reread>>

ReplyKind(resp) == IF resp.status = "error" THEN "remote_error" ELSE "returned"

\* The service answers (or the call raises) and the function returns.
EditReturn ==
    /\ mode = "file" /\ pc = "wait"
    /\ \E resp \in Responses :
        /\ edited' = EditReply(resp)
        /\ last' = [idx |-> 0, resp |-> resp, edited |-> EditReply(resp)]
        /\ trail' = Append(trail, Step("", ReplyKind(resp), EditReply(resp)))
    /\ inflight' = {}
    /\ pc' = "done"
    /\ UNCHANGED <<uiVars, dict0, extracts, mode, client, instructions, file_text, zip_bytes, file_names,
                   file_contents, file_dict, idx,
                   edited_files, sent, warnings, mem_zip, reread>>

(***************************************************************************)
(* edit_zip_with_instructions                                              *)
(***************************************************************************)
CurName == zip_bytes.namelist[idx]

InLoop == mode = "zip" /\ pc = "loop" /\ idx <= Len(zip_bytes.namelist)

\* zipfile.ZipFile(io.BytesIO(zip_bytes)): raises BadZipFile, outside any try,
\* when the bytes are no zip file.
OpenZip ==
    /\ mode = "zip" /\ pc = "start"
    /\ pc' = IF zip_bytes.ok THEN "loop" ELSE "raised"
    /\ idx' = 1
    /\ UNCHANGED <<uiVars, dict0, extracts, mode, client, instructions, file_text, zip_bytes, file_names,
                   file_contents, file_dict,
                   edited, edited_files, inflight, sent, last, trail, warnings,
                   mem_zip, reread>>

\* if zf.getinfo(name).is_dir(): continue
SkipDir ==
    /\ InLoop /\ is_dir(CurName)
    /\ trail' = Append(trail, Step(CurName, "dir", <<>>))
    /\ idx' = idx + 1
    /\ UNCHANGED <<uiVars, dict0, extracts, mode, client, instructions, file_text, zip_bytes, file_names,
                   file_contents, file_dict, pc,
                   edited, edited_files, inflight, sent, last, warnings, mem_zip, reread>>

\* A try around the whole loop: the first entry that cannot be read ends it.
ReadFailsAborts ==
    /\ mode = "zip" /\ pc = "loop" /\ idx <= Len(zip_bytes.namelist)
    /\ ~is_dir(zip_bytes.namelist[idx]) /\ ~CanRead(zip_bytes, zip_bytes.namelist[idx])
    /\ warnings' = Append(warnings, zip_bytes.namelist[idx])
    /\ trail' = Append(trail, Step(zip_bytes.namelist[idx], "unreadable", <<>>))
    /\ idx' = Len(zip_bytes.namelist) + 1
    /\ UNCHANGED <<uiVars, dict0, extracts, mode, client, instructions, file_text, zip_bytes, file_names,
                   file_contents, file_dict, pc,
                   edited, edited_files, inflight, sent, last, mem_zip, reread>>

\* zf.read(name) raises: the outer except warns and the loop goes on.
ReadFails ==
    /\ InLoop /\ ~is_dir(CurName) /\ ~CanRead(zip_bytes, CurName)
    /\ warnings' = Append(warnings, CurName)
    /\ trail' = Append(trail, Step(CurName, "unreadable", <<>>))
    /\ idx' = idx + 1
    /\ UNCHANGED <<uiVars, dict0, extracts, mode, client, instructions, file_text, zip_bytes, file_names,
                   file_contents, file_dict, pc,
                   edited, edited_files, inflight, sent, last, mem_zip, reread>>

EntryText == decode(read(zip_bytes, CurName))

\* What happens to an entry that was read, up to the request: the decode raises
\* and the loop continues, or edit_file_with_instructions is called.
EntryCheck(cl, raw) ==
    IF DecodeFails(raw) THEN "undecodable" ELSE Precheck(cl, decode(raw))

\* The entry is read, and either its decode raises or, decoded,
\* edit_file_with_instructions returns "" before any request: nothing is stored.
EntryRefused ==
    /\ InLoop /\ ~is_dir(CurName) /\ CanRead(zip_bytes, CurName)
    /\ EntryCheck(client, read(zip_bytes, CurName)) # "call"
    /\ edited' = <<>>
    /\ trail' = Append(trail, Step(CurName, EntryCheck(client, read(zip_bytes, CurName)), <<>>))
    /\ idx' = idx + 1
    /\ UNCHANGED <<uiVars, dict0, extracts, mode, client, instructions, file_text, zip_bytes, file_names,
                   file_contents, file_dict, pc,
                   edited_files, inflight, sent, last, warnings, mem_zip, reread>>

\* The entry is read and decoded, and the request for it is made.
EntryCall ==
    /\ InLoop /\ ~is_dir(CurName) /\ CanRead(zip_bytes, CurName)
    /\ EntryCheck(client, read(zip_bytes, CurName)) = "call"
    /\ inflight' = inflight \cup {EditRequest(EntryText, instructions)}
    /\ sent' = Append(sent, Sent(idx, EditRequest(EntryText, instructions)))
    /\ pc' = "wait"
    /\ UNCHANGED <<uiVars, dict0, extracts, mode, client, instructions, file_text, zip_bytes, file_names,
                   file_contents, file_dict, idx,
                   edited, edited_files, last, trail, warnings, mem_zip, reread>>

\* if edited: edited_files[name] = edited
Store(d, name, text) == IF text # <<>> THEN DictSet(d, name, text) ELSE d

\* A rewrite that sends its request again when the call raised.
EntryReturnRetry ==
    /\ mode = "zip" /\ pc = "wait"
    /\ \E resp \in Responses :
        /\ edited' = EditReply(resp)
        /\ last' = [idx |-> idx, resp |-> resp, edited |-> EditReply(resp)]
        /\ IF resp.status = "error"
           THEN /\ sent' = Append(sent, sent[Len(sent)])
                /\ UNCHANGED <<trail, edited_files, inflight, idx, pc>>
           ELSE /\ trail' = Append(trail, Step(zip_bytes.namelist[idx], "returned", EditReply(resp)))
                /\ edited_files' = Store(edited_files, zip_bytes.namelist[idx], EditReply(resp))
                /\ inflight' = {}
                /\ idx' = idx + 1
                /\ pc' = "loop"
                /\ sent' = sent
    /\ UNCHANGED <<uiVars, dict0, extracts, mode, client, instructions, file_text, zip_bytes, file_names,
                   file_contents, file_dict,
                   warnings, mem_zip, reread>>

\* The service answers (or the call raises); the edit returns, a non-empty
\* result is stored under the entry's name, and the loop goes on.
EntryReturn ==
    /\ mode = "zip" /\ pc = "wait"
    /\ \E resp \in Responses :
        /\ edited' = EditReply(resp)
        /\ last' = [idx |-> idx, resp |-> resp, edited |-> EditReply(resp)]
        /\ trail' = Append(trail, Step(CurName, ReplyKind(resp), EditReply(resp)))
        /\ edited_files' = Store(edited_files, CurName, EditReply(resp))
    /\ inflight' = {}
    /\ idx' = idx + 1
    /\ pc' = "loop"
    /\ UNCHANGED <<uiVars, dict0, extracts, mode, client, instructions, file_text, zip_bytes, file_names,
                   file_contents, file_dict,
                   sent, warnings, mem_zip, reread>>

\* return edited_files
ZipReturn ==
    /\ mode = "zip" /\ pc = "loop" /\ idx > Len(zip_bytes.namelist)
    /\ pc' = "done"
    /\ UNCHANGED <<uiVars, dict0, extracts, mode, client, instructions, file_text, zip_bytes, file_names,
                   file_contents, file_dict, idx,
                   edited, edited_files, inflight, sent, last, trail, warnings,
                   mem_zip, reread>>

(***************************************************************************)
(* The "Run edit" handler, its branch for uploaded files                   *)
(***************************************************************************)
CurFile == file_names[idx]

\* content = st.session_state.file_contents.get(fname, "")
CurContent == file_contents[CurFile]

InFiles == mode = "files" /\ pc = "loop" /\ idx <= Len(file_names)

\* st.session_state.edited_files = {}
FilesStart ==
    /\ mode = "files" /\ pc = "start"
    /\ edited_files' = <<>>
    /\ idx' = 1
    /\ pc' = "loop"
    /\ UNCHANGED <<uiVars, dict0, extracts, mode, client, instructions, file_text, zip_bytes, file_names,
                   file_contents, file_dict, edited, inflight, sent, last, trail,
                   warnings, mem_zip, reread>>

\* if content.strip(): otherwise the file is passed over.
FileBlank ==
    /\ InFiles /\ strip(CurContent) = <<>>
    /\ trail' = Append(trail, Step(CurFile, "blank", <<>>))
    /\ idx' = idx + 1
    /\ UNCHANGED <<uiVars, dict0, extracts, mode, client, instructions, file_text, zip_bytes, file_names,
                   file_contents, file_dict, pc, edited, edited_files, inflight, sent,
                   last, warnings, mem_zip, reread>>

\* edit_file_with_instructions returns "" before any request.
FileRefused ==
    /\ InFiles /\ strip(CurContent) # <<>>
    /\ Precheck(client, CurContent) # "call"
    /\ edited' = <<>>
    /\ trail' = Append(trail, Step(CurFile, Precheck(client, CurContent), <<>>))
    /\ idx' = idx + 1
    /\ UNCHANGED <<uiVars, dict0, extracts, mode, client, instructions, file_text, zip_bytes, file_names,
                   file_contents, file_dict, pc, edited_files, inflight, sent, last,
                   warnings, mem_zip, reread>>

\* The request for the file is made.
FileCall ==
    /\ InFiles /\ strip(CurContent) # <<>>
    /\ Precheck(client, CurContent) = "call"
    /\ inflight' = inflight \cup {EditRequest(CurContent, instructions)}
    /\ sent' = Append(sent, Sent(idx, EditRequest(CurContent, instructions)))
    /\ pc' = "wait"
    /\ UNCHANGED <<uiVars, dict0, extracts, mode, client, instructions, file_text, zip_bytes, file_names,
                   file_contents, file_dict, idx, edited, edited_files, last, trail,
                   warnings, mem_zip, reread>>

\* The service answers; if edited: st.session_state.edited_files[fname] = edited
FileReturn ==
    /\ mode = "files" /\ pc = "wait"
    /\ \E resp \in Responses :
        /\ edited' = EditReply(resp)
        /\ last' = [idx |-> idx, resp |-> resp, edited |-> EditReply(resp)]
        /\ trail' = Append(trail, Step(CurFile, ReplyKind(resp), EditReply(resp)))
        /\ edited_files' = Store(edited_files, CurFile, EditReply(resp))
    /\ inflight' = {}
    /\ idx' = idx + 1
    /\ pc' = "loop"
    /\ UNCHANGED <<uiVars, dict0, extracts, mode, client, instructions, file_text, zip_bytes, file_names,
                   file_contents, file_dict, sent, warnings, mem_zip, reread>>

\* The loop over file_names is over.
FilesDone ==
    /\ mode = "files" /\ pc = "loop" /\ idx > Len(file_names)
    /\ pc' = "done"
    /\ UNCHANGED <<uiVars, dict0, extracts, mode, client, instructions, file_text, zip_bytes, file_names,
                   file_contents, file_dict, idx, edited, edited_files, inflight, sent,
                   last, trail, warnings, mem_zip, reread>>

(***************************************************************************)
(* make_zip_from_dict, and the reading back of what it wrote               *)
(***************************************************************************)
\* zf.writestr(fname, content): a new member, its bytes the UTF-8 of content.
writestr(zf, fname, content) ==
    Zip(Append(zf.namelist, fname),
        [zf.data EXCEPT ![fname] = Member(TRUE, encode(content))])

\* The (name, text) pairs of a container, in its order.
Extract(zf) ==
    [k \in 1..Len(zf.namelist) |->
        Item(zf.namelist[k], decode(read(zf, zf.namelist[k])))]

PackOpen ==
    /\ mode = "pack" /\ pc = "start"
    /\ mem_zip' = EmptyZip
    /\ idx' = 1
    /\ pc' = "write"
    /\ UNCHANGED <<uiVars, dict0, extracts, mode, client, instructions, file_text, zip_bytes, file_names,
                   file_contents, file_dict,
                   edited, edited_files, inflight, sent, last, trail, warnings, reread>>

\* A packer that takes the items out of the dict as it writes them.
PackWriteConsuming ==
    /\ mode = "pack" /\ pc = "write" /\ file_dict # <<>>
    /\ mem_zip' = writestr(mem_zip, file_dict[1].name, file_dict[1].text)
    /\ file_dict' = Tail(file_dict)
    /\ idx' = 1
    /\ UNCHANGED <<uiVars, dict0, extracts, mode, client, instructions, file_text, zip_bytes,
                   file_names, file_contents, pc, edited, edited_files, inflight, sent,
                   last, trail, warnings, reread>>

\* for fname, content in file_dict.items(): zf.writestr(fname, content)
PackWrite ==
    /\ mode = "pack" /\ pc = "write" /\ idx <= Len(file_dict)
    /\ mem_zip' = writestr(mem_zip, file_dict[idx].name, file_dict[idx].text)
    /\ idx' = idx + 1
    /\ UNCHANGED <<uiVars, dict0, extracts, mode, client, instructions, file_text, zip_bytes, file_names,
                   file_contents, file_dict, pc,
                   edited, edited_files, inflight, sent, last, trail, warnings, reread>>

\* The with block closes the container; mem_zip.seek(0); return mem_zip
PackReturn ==
    /\ mode = "pack" /\ pc = "write" /\ idx > Len(file_dict)
    /\ pc' = "packed"
    /\ UNCHANGED <<uiVars, dict0, extracts, mode, client, instructions, file_text, zip_bytes, file_names,
                   file_contents, file_dict, idx,
                   edited, edited_files, inflight, sent, last, trail, warnings,
                   mem_zip, reread>>

ReRead ==
    /\ mode = "pack" /\ pc = "packed"
    /\ reread' = Extract(mem_zip)
    /\ extracts' = Append(extracts, Extract(mem_zip))
    /\ pc' = "done"
    /\ UNCHANGED <<uiVars, dict0, mode, client, instructions, file_text, zip_bytes, file_names,
                   file_contents, file_dict, idx, edited, edited_files, inflight, sent,
                   last, trail, warnings, mem_zip>>

\* make_zip_from_dict is called once more, with the same dict object.
PackAgain ==
    /\ mode = "pack" /\ pc = "done" /\ Len(extracts) < 2
    /\ pc' = "start"
    /\ UNCHANGED <<uiVars, dict0, extracts, mode, client, instructions, file_text, zip_bytes,
                   file_names, file_contents, file_dict, idx, edited, edited_files,
                   inflight, sent, last, trail, warnings, mem_zip, reread>>

Next ==
    \/ EditRefused \/ EditCall \/ EditReturn
    \/ OpenZip \/ SkipDir \/ ReadFails \/ EntryRefused \/ EntryCall \/ EntryReturn
    \/ ZipReturn
    \/ FilesStart \/ FileBlank \/ FileRefused \/ FileCall \/ FileReturn \/ FilesDone
    \/ PackOpen \/ PackWrite \/ PackReturn \/ ReRead \/ PackAgain

Spec == Init /\ [][Next]_vars

(***************************************************************************)
(* The script: uploads and session state                                   *)
(*                                                                         *)
(* Under SpecUI one action is one script run: it reads the widgets,        *)
(* st.session_state and the answers of the service, and leaves             *)
(* st.session_state.  The session keys are the variables of the same       *)
(* names; within a run they travel as one record.  An UploadedFile is read *)
(* from its start in every run.  The second chat of the edit tab           *)
(* (edit_chat_history) is left out but for its reset button, which cuts    *)
(* the run short.                                                          *)
(***************************************************************************)
MaxChat == 2

preview_files == 10

preview_chars == 500

\* An uploaded file: its name, its bytes, and what zipfile.ZipFile makes of
\* those bytes.
UploadedFile(name, raw, zf) == [name |-> name, raw |-> raw, zf |-> zf]

ZipNames == {"p.ZIP"}

\* str.lower()
lower(name) == IF name = "p.ZIP" THEN "p.zip" ELSE name

\* name.endswith(".zip")
endswith_zip(name) == name = "p.zip"

\* text[:n]
RECURSIVE Slice(_, _)
Slice(t, n) ==
    IF t = <<>> \/ n <= 0 THEN <<>>
    ELSE IF Head(t).n <= n THEN <<Head(t)>> \o Slice(Tail(t), n - Head(t).n)
    ELSE <<Run(Head(t).c, n)>>

\* seq[:n]
FirstN(seq, n) == IF Len(seq) <= n THEN seq ELSE SubSeq(seq, 1, n)

\* A text file: bytes that are no zip file.
TextFile(name, raw) == UploadedFile(name, raw, BadZip)

Blank == <<Run(" ", 1)>>

Invalid == <<Run("FF", 1)>>

Long == <<Run("a", max_chars + 1)>>

\* What the user can upload as text files: one or two files, blank or not, two
\* of one name.
TextUploads ==
    { <<TextFile("a.txt", Blank)>>,
      <<TextFile("a.txt", Invalid)>>,
      <<TextFile("a.txt", Invalid), TextFile("b.txt", Blank)>>,
      <<TextFile("a.txt", Invalid), TextFile("b.txt", Invalid)>>,
      <<TextFile("a.txt", Invalid), TextFile("a.txt", Blank)>> }

\* An archive that lists nl and holds ma under "a.txt", mb under "b.txt".
Holding(nl, ma, mb) ==
    Zip(nl, [n \in FileNames |-> IF n = "a.txt" THEN ma
                                 ELSE IF n = "b.txt" THEN mb ELSE NoMember])

\* What the user can upload as an archive: no zip file at all, no entry, a
\* directory only, one file, two files, and files that cannot be read or are
\* longer than the ceiling.
UIArchives ==
    { BadZip,
      EmptyZip,
      Holding(<<"d/">>, NoMember, NoMember),
      Holding(<<"a.txt">>, Member(TRUE, Invalid), NoMember),
      Holding(<<"a.txt", "b.txt">>, Member(TRUE, Invalid), Member(TRUE, Invalid)),
      Holding(<<"d/", "a.txt", "b.txt">>, Member(TRUE, Invalid), NoMember),
      Holding(<<"a.txt", "b.txt">>, Member(TRUE, Long), Member(TRUE, Invalid)) }

ZipFiles == {UploadedFile(n, <<Run("PK", 1)>>, zf) : n \in ZipNames, zf \in UIArchives}

\* An archive uploaded together with a text file.
MixedUploads ==
    { <<UploadedFile("p.ZIP", <<Run("PK", 1)>>, EmptyZip), TextFile("a.txt", Invalid)>> }

\* What the user can leave in the uploader.
Uploads == {<<>>} \cup TextUploads \cup {<<z>> : z \in ZipFiles} \cup MixedUploads

\* file_contents, a dict read with .get(name, "") only: the text per name,
\* "" for a name that is no key.
NoFiles == [n \in FileNames \cup ZipNames |-> <<>>]

\* The session keys the edit tab keeps.
session_state ==
    [ file_contents  |-> file_contents,
      file_names     |-> file_names,
      is_zip         |-> is_zip,
      zip_file_list  |-> zip_file_list,
      zip_preview    |-> zip_preview,
      selected_file  |-> selected_file,
      edited_files   |-> edited_files,
      edited_zip     |-> edited_zip,
      edited_content |-> edited_content,
      zip_bytes      |-> zip_bytes ]

\* if "..." not in st.session_state: the values of the first run.
FirstSession ==
    [ file_contents  |-> NoFiles,
      file_names     |-> <<>>,
      is_zip         |-> FALSE,
      zip_file_list  |-> <<>>,
      zip_preview    |-> <<>>,
      selected_file  |-> None,
      edited_files   |-> <<>>,
      edited_zip     |-> <<>>,
      edited_content |-> <<>>,
      zip_bytes      |-> None ]

\* The ten assignments at the head of "if uploaded_files".
ResetSession(s) == FirstSession

\* [name for name in zf.namelist() if not zf.getinfo(name).is_dir()]
RECURSIVE FileList(_)
FileList(nl) ==
    IF nl = <<>> THEN <<>>
    ELSE IF is_dir(Head(nl)) THEN FileList(Tail(nl))
    ELSE <<Head(nl)>> \o FileList(Tail(nl))

CouldNotDecode == <<Run("[Could not decode]", 1)>>

\* preview[name] for the names of file_list[:10], in order.
RECURSIVE Preview(_, _)
Preview(zf, names) ==
    IF names = <<>> THEN <<>>
    ELSE LET name == names[Len(names)]
             rest == Preview(zf, SubSeq(names, 1, Len(names) - 1))
         IN  DictSet(rest, name,
                     IF CanRead(zf, name)
                     THEN Slice(decode(read(zf, name)), preview_chars)
                     ELSE CouldNotDecode)

\* The zip branch: one upload whose lower-cased name ends with ".zip".
LoadZip(s, uploaded) ==
    IF uploaded.zf.ok
    THEN [s EXCEPT !.is_zip = TRUE,
                   !.zip_bytes = uploaded.zf,
                   !.zip_file_list = FileList(uploaded.zf.namelist),
                   !.zip_preview =
                       Preview(uploaded.zf,
                               FirstN(FileList(uploaded.zf.namelist), preview_files)),
                   !.file_names = FileList(uploaded.zf.namelist)]
    ELSE [s EXCEPT !.is_zip = TRUE,
                   !.zip_bytes = uploaded.zf,
                   !.zip_file_list = <<>>,
                   !.zip_preview = <<>>,
                   !.file_names = <<>>]

\* The loop of the other branch: every upload is read and decoded.
RECURSIVE LoadFiles(_, _)
LoadFiles(s, ups) ==
    IF ups = <<>> THEN s
    ELSE LoadFiles([s EXCEPT !.file_contents[Head(ups).name] = decode(Head(ups).raw),
                             !.file_names = Append(s.file_names, Head(ups).name)],
                   Tail(ups))

\* The other branch: several uploads, or one that is no zip by its name.
LoadTexts(s, ups) ==
    LET t == LoadFiles(s, ups)
    IN  [t EXCEPT !.is_zip = FALSE,
                  !.selected_file = IF t.file_names # <<>> THEN t.file_names[1] ELSE None]

\* An upload handler that leaves the results of the last edit alone.
HandleUploadsKeeping(s, ups) ==
    IF ups = <<>> THEN s
    ELSE LET r == [ResetSession(s) EXCEPT !.edited_files = s.edited_files,
                                          !.edited_zip = s.edited_zip,
                                          !.edited_content = s.edited_content]
         IN  IF Len(ups) = 1 /\ endswith_zip(lower(ups[1].name))
             THEN LoadZip(r, ups[1])
             ELSE LoadTexts(r, ups)

\* "# Handle uploads"
HandleUploads(s, ups) ==
    IF ups = <<>> THEN s
    ELSE IF Len(ups) = 1 /\ endswith_zip(lower(ups[1].name))
         THEN LoadZip(ResetSession(s), ups[1])
         ELSE LoadTexts(ResetSession(s), ups)

(***************************************************************************)
(* The script: the helpers as functions of the answers of the service      *)
(***************************************************************************)
\* The answers the script runs are given: a raised exception, an empty
\* content, a text.
EditAnswers ==
    { Response("error", <<>>),
      Response("ok", <<Choice(FALSE, <<>>)>>),
      Response("ok", <<Choice(FALSE, <<Run("b", 1)>>)>>) }

\* edit_file_with_instructions(text, instructions), the service answering resp.
EditFile(cl, text, resp) == IF Precheck(cl, text) = "call" THEN EditReply(resp) ELSE <<>>

\* edited_files after the first k names of zf.namelist(), resps[j] being the
\* answer to a request made for the j-th name.
RECURSIVE EditEntries(_, _, _, _)
EditEntries(cl, zf, resps, k) ==
    IF k = 0 THEN <<>>
    ELSE LET d    == EditEntries(cl, zf, resps, k - 1)
             name == zf.namelist[k]
         IN  IF is_dir(name) \/ ~CanRead(zf, name) THEN d
             ELSE IF EntryCheck(cl, read(zf, name)) # "call" THEN d
             ELSE Store(d, name, EditReply(resps[k]))

\* st.session_state.edited_files after the first k names of file_names.
RECURSIVE EditNames(_, _, _, _)
EditNames(cl, s, resps, k) ==
    IF k = 0 THEN <<>>
    ELSE LET d       == EditNames(cl, s, resps, k - 1)
             content == s.file_contents[s.file_names[k]]
         IN  IF strip(content) = <<>> THEN d
             ELSE Store(d, s.file_names[k], EditFile(cl, content, resps[k]))

\* ai_chat's try: resp.choices[0].message.content or "", and "" from the
\* except branch.
ChatReply(resp) ==
    IF resp.status = "error" THEN <<>>
    ELSE IF resp.choices = <<>> THEN <<>>
    ELSE IF resp.choices[1].isnone THEN <<>>
    ELSE resp.choices[1].content

\* ai_chat(messages), the service answering resp.
ai_chat(cl, resp) == IF NeedKey(cl) THEN <<>> ELSE ChatReply(resp)

(***************************************************************************)
(* The script: the Chatbot tab                                             *)
(***************************************************************************)
\* What the user can submit in st.chat_input.
UserMessages == { <<Run("a", 1)>> }

Users(h) == {k \in 1..Len(h) : h[k].role = "user"}

\* A chat that takes the user message back when no reply came.
ChatTurnDropping(h, user_msg, reply) ==
    IF reply # <<>>
    THEN Append(Append(h, Message("user", user_msg)), Message("assistant", reply))
    ELSE h

\* "if user_msg:" with a message submitted: the user entry is appended, then
\* the assistant entry if ai_chat returned a non-empty reply.
ChatTurn(h, user_msg, reply) ==
    LET h1 == Append(h, Message("user", user_msg))
    IN  IF reply # <<>> THEN Append(h1, Message("assistant", reply)) ELSE h1

(***************************************************************************)
(* The script: the Edit file(s) tab after the uploads are handled          *)
(***************************************************************************)
\* What the user can leave in an Ace editor before saving.
AceTexts == { <<>>, <<Run("c", 1)>> }

\* "# File/project browser and preview": the select box is shown for plain
\* files only, and its value becomes selected_file.
BrowseShown(s) == ~(s.is_zip /\ s.zip_file_list # <<>>) /\ s.file_names # <<>>

Browse(s, sel) == IF BrowseShown(s) THEN [s EXCEPT !.selected_file = sel] ELSE s

\* The value of the select box when the user did not touch it: the option it
\* had if that is still an option, else the option at index.
KeptSelection(old, s) ==
    IF ~BrowseShown(s) THEN None
    ELSE IF old.selected_file \in Range(s.file_names) /\ BrowseShown(old)
         THEN old.selected_file
         ELSE IF s.selected_file \in Range(s.file_names) THEN s.selected_file
         ELSE s.file_names[1]

\* "# Enable/disable edit button"
run_edit_disabled(s) ==
    IF s.is_zip /\ s.zip_file_list # <<>> THEN ~(s.zip_file_list # <<>>)
    ELSE IF s.file_names # <<>> THEN FALSE
    ELSE TRUE

\* A handler that keeps the rewrites of an archive where those of plain files go.
RunEditIntoFiles(s, cl, resps) ==
    IF s.is_zip /\ s.zip_file_list # <<>>
    THEN [s EXCEPT !.edited_files =
                       EditEntries(cl, s.zip_bytes, resps, Len(s.zip_bytes.namelist)),
                   !.edited_zip = <<>>,
                   !.edited_content = <<>>]
    ELSE IF s.file_names # <<>>
    THEN [s EXCEPT !.edited_files = EditNames(cl, s, resps, Len(s.file_names)),
                   !.edited_content = <<>>,
                   !.edited_zip = <<>>]
    ELSE s

\* The body of 'if st.button("Run edit", ...)'.
RunEdit(s, cl, resps) ==
    IF s.is_zip /\ s.zip_file_list # <<>>
    THEN LET e == EditEntries(cl, s.zip_bytes, resps, Len(s.zip_bytes.namelist))
         IN  IF e # <<>>
             THEN [s EXCEPT !.edited_zip = e, !.edited_files = <<>>,
                            !.edited_content = <<>>]
             ELSE [s EXCEPT !.edited_zip = <<>>, !.edited_files = <<>>,
                            !.edited_content = <<>>]
    ELSE IF s.file_names # <<>>
    THEN [s EXCEPT !.edited_files = EditNames(cl, s, resps, Len(s.file_names)),
                   !.edited_content = <<>>,
                   !.edited_zip = <<>>]
    ELSE s

\* The "Save" button of the file editor is rendered.
SaveShown(s, ace) == ace /\ s.file_names # <<>> /\ ~s.is_zip

\* st.session_state.file_contents[selected_file] = ace_content
SaveFile(s, content) == [s EXCEPT !.file_contents[s.selected_file] = content]

\* "# --- Edited files download and preview ---": the branch taken.
Shown(s) ==
    IF s.is_zip /\ s.edited_zip # <<>> THEN "edited_zip"
    ELSE IF s.edited_files # <<>> THEN "edited_files"
    ELSE IF s.edited_content # <<>> THEN "edited_content"
    ELSE "nothing"

\* The "Save (edited)" button for the edited file key is rendered.
SaveEditedShown(s, ace, key) ==
    ace /\ Shown(s) = "edited_files" /\ key \in KeySet(s.edited_files)

\* st.session_state.edited_files[selected_edited] = ace_edited_content
SaveEdited(s, key, content) == [s EXCEPT !.edited_files = DictSet(@, key, content)]

(***************************************************************************)
(* The script: one action per script run                                   *)
(***************************************************************************)
\* The variables only the stepped helpers use.
helperVars == <<mode, instructions, file_text, file_dict, pc, idx, edited, inflight, sent,
                last, trail, warnings, mem_zip, reread, dict0, extracts>>

InitUI ==
    /\ mode = "ui"
    /\ client \in BOOLEAN
    /\ st_ace \in BOOLEAN
    /\ instructions = <<Run("a", 1)>>
    /\ file_text = <<>>
    /\ zip_bytes = None
    /\ file_names = <<>>
    /\ file_contents = NoFiles
    /\ file_dict = <<>>
    /\ pc = "start"
    /\ idx = 0
    /\ edited = <<>>
    /\ edited_files = <<>>
    /\ inflight = {}
    /\ sent = <<>>
    /\ last = NoLast
    /\ trail = <<>>
    /\ warnings = <<>>
    /\ mem_zip = EmptyZip
    /\ reread = <<>>
    /\ dict0 = <<>>
    /\ extracts = <<>>
    /\ SessionDefaults

\* The run is over, or st.rerun() cut it short: st.session_state is as s.
Leave(s) ==
    /\ file_contents' = s.file_contents
    /\ file_names' = s.file_names
    /\ is_zip' = s.is_zip
    /\ zip_file_list' = s.zip_file_list
    /\ zip_preview' = s.zip_preview
    /\ selected_file' = s.selected_file
    /\ edited_files' = s.edited_files
    /\ edited_zip' = s.edited_zip
    /\ edited_content' = s.edited_content
    /\ zip_bytes' = s.zip_bytes

\* The edit tab down to the "Run edit" button, the select box untouched.
Pass(s, ups) == Browse(HandleUploads(s, ups), KeptSelection(s, HandleUploads(s, ups)))

\* The previous run came to its end: the page waits for the user.
Idle == mode = "ui" /\ script.reached = "end"

\* The user adds or removes files in the uploader.
UploadFiles ==
    /\ Idle
    /\ \E ups \in Uploads \ {uploaded_files} :
        /\ uploaded_files' = ups
        /\ Leave(Pass(session_state, ups))
    /\ script' = Ran("none", "end", FALSE, <<>>, NoAnswer)
    /\ UNCHANGED <<helperVars, client, st_ace, chat_history>>

\* The user enters or clears OPENAI_API_KEY in the sidebar.
EnterKey ==
    /\ Idle
    /\ client' = ~client
    /\ Leave(Pass(session_state, uploaded_files))
    /\ script' = Ran("none", "end", FALSE, <<>>, NoAnswer)
    /\ UNCHANGED <<helperVars, uploaded_files, st_ace, chat_history>>

\* The user picks another file in "Select a file to preview and edit".
SelectFile ==
    /\ Idle /\ BrowseShown(session_state)
    /\ \E sel \in Range(file_names) \ {selected_file} :
        Leave(Browse(HandleUploads(session_state, uploaded_files), sel))
    /\ script' = Ran("none", "end", FALSE, <<>>, NoAnswer)
    /\ UNCHANGED <<helperVars, client, uploaded_files, st_ace, chat_history>>

\* The user submits a message in the Chatbot tab.  With no client no request
\* is made.
SendChat ==
    /\ Idle /\ Cardinality(Users(chat_history)) < MaxChat
    /\ \E user_msg \in UserMessages,
          resp \in (IF NeedKey(client) THEN {NoAnswer} ELSE Responses) :
        /\ chat_history' = ChatTurn(chat_history, user_msg, ai_chat(client, resp))
        /\ script' = Ran("chat", "end", FALSE, user_msg, resp)
    /\ Leave(Pass(session_state, uploaded_files))
    /\ UNCHANGED <<helperVars, client, uploaded_files, st_ace>>

\* The user clicks "Reset chatbot": the history is reset and st.rerun() ends
\* the run before the edit tab.
ResetChatbot ==
    /\ Idle
    /\ chat_history' = <<SystemMessage>>
    /\ script' = Ran("reset_chat", "chat", FALSE, <<>>, NoAnswer)
    /\ Leave(session_state)
    /\ UNCHANGED <<helperVars, client, uploaded_files, st_ace>>

\* The user clicks "Reset chatbot (edit)": st.rerun() ends the run after the
\* uploads are handled.
ResetEditChat ==
    /\ Idle
    /\ script' = Ran("reset_edit_chat", "edit_chat", FALSE, <<>>, NoAnswer)
    /\ Leave(HandleUploads(session_state, uploaded_files))
    /\ UNCHANGED <<helperVars, client, uploaded_files, st_ace, chat_history>>

\* The run st.rerun() asked for.
Rerun ==
    /\ mode = "ui" /\ script.reached # "end"
    /\ script' = Ran("none", "end", FALSE, <<>>, NoAnswer)
    /\ Leave(Pass(session_state, uploaded_files))
    /\ UNCHANGED <<helperVars, client, uploaded_files, st_ace, chat_history>>

\* The number of times the loop of the "Run edit" handler goes round.
Rounds(s) == IF s.is_zip /\ s.zip_file_list # <<>> THEN Len(s.zip_bytes.namelist)
             ELSE Len(s.file_names)

\* The user clicks "Run edit".
ClickRunEdit ==
    /\ Idle /\ ~run_edit_disabled(session_state)
    /\ \E resps \in [1..Rounds(Pass(session_state, uploaded_files)) -> EditAnswers] :
        Leave(RunEdit(Pass(session_state, uploaded_files), client, resps))
    /\ script' = Ran("run_edit", "end", FALSE, <<>>, NoAnswer)
    /\ UNCHANGED <<helperVars, client, uploaded_files, st_ace, chat_history>>

\* The user clicks "Save" under the file editor.
ClickSave ==
    /\ Idle /\ SaveShown(session_state, st_ace)
    /\ \E content \in AceTexts :
        LET s == Pass(session_state, uploaded_files)
        IN  Leave(IF SaveShown(s, st_ace) THEN SaveFile(s, content) ELSE s)
    /\ script' = Ran("save", "end", FALSE, <<>>, NoAnswer)
    /\ UNCHANGED <<helperVars, client, uploaded_files, st_ace, chat_history>>

\* The user clicks "Save (edited)" under the editor of an edited file.  The
\* click is observed if the run renders the button again.
ClickSaveEdited ==
    /\ Idle
    /\ \E key \in KeySet(edited_files), content \in AceTexts :
        /\ SaveEditedShown(session_state, st_ace, key)
        /\ LET s == Pass(session_state, uploaded_files)
           IN  /\ Leave(IF SaveEditedShown(s, st_ace, key)
                        THEN SaveEdited(s, key, content) ELSE s)
               /\ script' = Ran("save_edited", "end", SaveEditedShown(s, st_ace, key),
                                <<>>, NoAnswer)
    /\ UNCHANGED <<helperVars, client, uploaded_files, st_ace, chat_history>>

NextUI ==
    \/ UploadFiles \/ EnterKey \/ SelectFile
    \/ SendChat \/ ResetChatbot
    \/ ResetEditChat \/ Rerun
    \/ ClickRunEdit \/ ClickSave \/ ClickSaveEdited

SpecUI == InitUI /\ [][NextUI]_vars

(***************************************************************************)
(* What the claims speak of                                                *)
(***************************************************************************)
\* The requests made for the entry at position k of the archive.
Calls(k) == {j \in 1..Len(sent) : sent[j].idx = k}

Called(k) == trail[k].kind \in {"remote_error", "returned"}

ValidUtf8(raw) == \A k \in 1..Len(raw) : raw[k].c # "FF"

HasReplacement(text) == \E k \in 1..Len(text) : text[k].c = "U+FFFD"

FileEntries == {k \in 1..Len(zip_bytes.namelist) : ~is_dir(zip_bytes.namelist[k])}

ZipDone == mode = "zip" /\ pc = "done"

\* Three entries, all files of different names, the call of exactly one of
\* which raised while the rewrites of the other two gave text.
ThreeEntryCase ==
    /\ Len(zip_bytes.namelist) = 3
    /\ Len(trail) = 3
    /\ Cardinality(Range(zip_bytes.namelist)) = 3
    /\ FileEntries = 1..3
    /\ \E k \in 1..3 :
        /\ trail[k].kind = "remote_error"
        /\ \A j \in (1..3) \ {k} : trail[j].kind = "returned" /\ trail[j].edited # <<>>

\* C1: a failure of one entry does not end the batch.  When
\* edit_zip_with_instructions has returned, every entry of the archive has had
\* its iteration, in order, whatever became of the entries before it (a
\* directory, a read that raised, an empty or oversized text, a missing
\* client, a call that raised); every entry the prechecks let through had its
\* request; every entry whose rewrite gave non-empty text is a key of the
\* result; and of three differently named entries of which exactly one's call
\* raised and the other two were rewritten, the result holds two.  A readable
\* archive never makes the call raise, and the call is never stuck.
C1_FailureDoesNotAbort ==
    /\ (mode = "zip" /\ zip_bytes.ok) => pc # "raised"
    /\ (mode = "zip" /\ zip_bytes.ok /\ pc # "done") => ENABLED Next
    /\ ZipDone =>
        /\ Len(trail) = Len(zip_bytes.namelist)
        /\ \A k \in 1..Len(trail) :
            /\ trail[k].name = zip_bytes.namelist[k]
            /\ (trail[k].kind = "dir") <=> is_dir(zip_bytes.namelist[k])
            /\ ( /\ ~is_dir(trail[k].name)
                 /\ CanRead(zip_bytes, trail[k].name)
                 /\ client
                 /\ decode(read(zip_bytes, trail[k].name)) # <<>>
                 /\ len(decode(read(zip_bytes, trail[k].name))) <= max_chars )
               => Called(k) /\ Calls(k) # {}
            /\ trail[k].edited # <<>> => trail[k].name \in KeySet(edited_files)
        /\ ThreeEntryCase => Len(edited_files) = 2

C1_Witness ==
    /\ ZipDone /\ ThreeEntryCase /\ Len(edited_files) = 2
    /\ trail[1].kind = "remote_error"

\* C2 as claimed: an entry whose bytes are not valid text is skipped: no request
\* is made for it and its name is no key, so the result has at most as many
\* keys as the archive has entries of valid text.
C2_UndecodableSkipped ==
    mode = "zip" =>
        /\ \A k \in 1..Len(trail) :
            ( /\ ~is_dir(trail[k].name)
              /\ CanRead(zip_bytes, trail[k].name)
              /\ ~ValidUtf8(read(zip_bytes, trail[k].name)) )
            => Calls(k) = {} /\ trail[k].name \notin KeySet(edited_files)
        /\ Len(edited_files) <=
             Cardinality({k \in FileEntries : CanRead(zip_bytes, zip_bytes.namelist[k])
                                             /\ ValidUtf8(read(zip_bytes, zip_bytes.namelist[k]))})

\* C2 as amended: an entry whose bytes are not valid text is not skipped.  No
\* decode ever raises; the invalid bytes become U+FFFD, and, the client being
\* there and the text within the ceiling, one request carrying that text is
\* made for the entry, whose name is a key once the rewrite gave text.  The
\* result has at most as many keys as the archive has file entries, valid or not.
C2_UndecodableRewritten ==
    mode = "zip" =>
        /\ \A k \in 1..Len(trail) :
            /\ trail[k].kind # "undecodable"
            /\ ( /\ ~is_dir(trail[k].name)
                 /\ CanRead(zip_bytes, trail[k].name)
                 /\ ~ValidUtf8(read(zip_bytes, trail[k].name))
                 /\ client
                 /\ len(decode(read(zip_bytes, trail[k].name))) <= max_chars )
               => /\ Called(k)
                  /\ Cardinality(Calls(k)) = 1
                  /\ \A j \in Calls(k) :
                        /\ sent[j].req.file = decode(read(zip_bytes, trail[k].name))
                        /\ HasReplacement(sent[j].req.file)
                  /\ trail[k].edited # <<>> => trail[k].name \in KeySet(edited_files)
        /\ Len(edited_files) <= Cardinality(FileEntries)

C2_Witness ==
    /\ ZipDone
    /\ \E k \in 1..Len(trail) :
        /\ ~is_dir(trail[k].name)
        /\ ~ValidUtf8(read(zip_bytes, trail[k].name))
        /\ trail[k].edited # <<>>
        /\ trail[k].name \in KeySet(edited_files)
    /\ \E k \in 1..Len(trail) :
        /\ ~is_dir(trail[k].name)
        /\ CanRead(zip_bytes, trail[k].name)
        /\ ValidUtf8(read(zip_bytes, trail[k].name))
        /\ trail[k].edited # <<>>

\* C3 as claimed: for a text of the ceiling's length or longer the rewrite makes
\* no request and returns "".
C3_AtOrAboveCeilingRefused ==
    (mode = "file" /\ len(file_text) >= max_chars) =>
        /\ sent = <<>>
        /\ inflight = {}
        /\ pc = "done" => edited = <<>>

\* C3 as amended: for a text longer than the ceiling the rewrite makes no
\* request and returns ""; a text of exactly the ceiling's length is let
\* through, and with a client its request is made.  No request ever carries a
\* text longer than the ceiling.
C3_AboveCeilingRefused ==
    /\ (mode = "file" /\ len(file_text) > max_chars) =>
        /\ sent = <<>>
        /\ inflight = {}
        /\ pc = "done" => edited = <<>> /\ trail[1].kind \in {"need_key", "too_large"}
    /\ (mode = "file" /\ len(file_text) = max_chars /\ client /\ pc # "start") =>
        /\ Len(sent) = 1
        /\ sent[1].req.file = file_text
    /\ \A j \in 1..Len(sent) : len(sent[j].req.file) <= max_chars

C3_Witness ==
    /\ mode = "file" /\ pc = "done" /\ client
    /\ len(file_text) = max_chars + 1
    /\ trail[1].kind = "too_large"

\* The first completion of a response has a non-empty text.
HasText(resp) ==
    /\ resp.status = "ok"
    /\ resp.choices # <<>>
    /\ ~resp.choices[1].isnone
    /\ resp.choices[1].content # <<>>

\* C4 as claimed: with a client and a non-empty text under the ceiling, the
\* rewrite returns a non-empty result whenever the call returned, whatever the
\* response holds.
C4_SuccessGivesResult ==
    ( /\ mode = "file" /\ pc = "done" /\ client
      /\ file_text # <<>> /\ len(file_text) < max_chars
      /\ last.resp.status = "ok" )
    => edited # <<>>

\* C4 as amended: when the call returned and the text of its first completion
\* is not empty, the rewrite returns exactly that text; when the call returned
\* with no completion, or with a first completion whose text is absent or
\* empty, the rewrite returns "", as it does when the call raised.
C4_ResultIsFirstCompletion ==
    /\ last.idx >= 0 =>
        /\ HasText(last.resp) => last.edited = last.resp.choices[1].content
        /\ ~HasText(last.resp) => last.edited = <<>>
    /\ (mode = "file" /\ pc = "done" /\ sent # <<>>) =>
        /\ last.idx = 0
        /\ edited = last.edited
        /\ HasText(last.resp) <=> edited # <<>>

C4_Witness ==
    /\ mode = "file" /\ pc = "done" /\ client
    /\ file_text # <<>> /\ len(file_text) < max_chars
    /\ HasText(last.resp)
    /\ edited = <<Run(" ", 1)>>

\* C5: without a client no request is ever made, the rewrite returns "" whatever
\* the text and the instructions, and edit_zip_with_instructions returns the
\* empty dict: every file entry it could read ended at the missing client.
C5_NoClientNoCall ==
    (mode \in {"file", "zip", "files"} /\ ~client) =>
        /\ sent = <<>>
        /\ inflight = {}
        /\ pc # "wait"
        /\ edited = <<>>
        /\ edited_files = <<>>
        /\ \A k \in 1..Len(trail) : trail[k].kind \in {"dir", "unreadable", "blank", "need_key"}

C5_Witness ==
    /\ ZipDone /\ ~client
    /\ Len(trail) >= 2
    /\ \E k \in 1..Len(trail) :
        /\ trail[k].kind = "need_key"
        /\ decode(read(zip_bytes, trail[k].name)) = <<Run("a", 1)>>
    /\ edited_files = <<>>

\* C6 as claimed: no call ever raises to its caller.
C6_NeverRaises == pc # "raised"

\* The position of the first entry of the given name whose rewrite gave text.
FirstStored(name) ==
    CHOOSE k \in 1..Len(trail) :
        /\ trail[k].name = name /\ trail[k].edited # <<>>
        /\ \A j \in 1..(k - 1) : ~(trail[j].name = name /\ trail[j].edited # <<>>)

\* The position of the last entry of the given name whose rewrite gave text.
LastStored(name) ==
    CHOOSE k \in 1..Len(trail) :
        /\ trail[k].name = name /\ trail[k].edited # <<>>
        /\ \A j \in (k + 1)..Len(trail) : ~(trail[j].name = name /\ trail[j].edited # <<>>)

\* C7: the dict edit_zip_with_instructions builds is, at every moment, an
\* order-preserving part of the archive's file entries: its keys are different
\* from one another, each the name of a file entry and none of a directory;
\* its keys are exactly the names for which a rewrite gave non-empty text; each
\* value is the non-empty text the rewrite of that entry returned; and the keys
\* stand in the order in which the archive lists those entries.
C7_OrderedSubMapping ==
    mode = "zip" =>
        /\ HasDistinctKeys(edited_files)
        /\ KeySet(edited_files) \subseteq {zip_bytes.namelist[k] : k \in FileEntries}
        /\ \A n \in DirNames : n \notin KeySet(edited_files)
        /\ KeySet(edited_files) =
             {trail[k].name : k \in {j \in 1..Len(trail) : trail[j].edited # <<>>}}
        /\ \A p \in 1..Len(edited_files) :
            /\ edited_files[p].text # <<>>
            /\ edited_files[p].text = trail[LastStored(edited_files[p].name)].edited
        /\ \A p, q \in 1..Len(edited_files) :
            p < q => FirstStored(edited_files[p].name) < FirstStored(edited_files[q].name)

C7_Witness ==
    /\ ZipDone
    /\ Len(edited_files) = 2
    /\ \E k \in 1..Len(zip_bytes.namelist) : is_dir(zip_bytes.namelist[k])
    /\ edited_files[1].text # edited_files[2].text

\* C8: requests go out one at a time and none is repeated.  At most one request
\* is in flight, and one is in flight exactly while a rewrite waits for the
\* service; the requests made so far are for entries in rising order, one per
\* entry at most, also for an entry whose call raised; each entry that has had
\* its iteration has had exactly one request if the prechecks let it through
\* and none otherwise; and every request but the one in flight has been
\* answered before the next entry is taken up.
C8_SequentialNoRetry ==
    /\ Cardinality(inflight) <= 1
    /\ (inflight # {}) <=> (pc = "wait")
    /\ pc = "wait" => sent # <<>> /\ inflight = {sent[Len(sent)].req}
    /\ \A i, j \in 1..Len(sent) : i < j => sent[i].idx < sent[j].idx
    /\ mode = "file" => Len(sent) <= 1
    /\ mode \in {"zip", "files"} =>
        /\ \A k \in 1..Len(trail) :
            Cardinality(Calls(k)) = (IF Called(k) THEN 1 ELSE 0)
        /\ \A j \in 1..Len(sent) :
            sent[j].idx <= Len(trail) + (IF pc = "wait" THEN 1 ELSE 0)
        /\ Len(sent) = Cardinality({k \in 1..Len(trail) : Called(k)})
                       + (IF pc = "wait" THEN 1 ELSE 0)

C8_Witness ==
    /\ ZipDone
    /\ Len(sent) = 3
    /\ trail[2].kind = "remote_error"
    /\ trail[3].kind = "returned"

\* C9 as claimed: no request is made whose instruction, stripped, is empty.
C9_InstructionNeverBlank ==
    \A j \in 1..Len(sent) : sent[j].req.instruction # <<>>

\* C10: what make_zip_from_dict wrote, read back, is the dict: the same names,
\* no more and no fewer, in the dict's order, each with the text it had.
C10_PackRoundTrip ==
    /\ (mode = "pack" /\ pc \in {"packed", "done"}) =>
        mem_zip.namelist = Keys(file_dict)
    /\ (mode = "pack" /\ pc = "done") =>
        /\ Len(reread) = Len(file_dict)
        /\ \A k \in 1..Len(file_dict) :
            /\ reread[k].name = file_dict[k].name
            /\ reread[k].text = file_dict[k].text

C10_Witness ==
    /\ mode = "pack" /\ pc = "done"
    /\ Len(file_dict) = 2
    /\ \E k \in 1..2 : HasReplacement(file_dict[k].text)
    /\ \E k \in 1..2 : reread[k].text = <<Run("a", 1), Run(" ", 1)>>
    /\ reread = file_dict

\* The (name, text) pairs of a read-back container, as a set.
Pairs(d) == {d[k] : k \in 1..Len(d)}

\* C11: packaging is idempotent on content.  Two calls of make_zip_from_dict
\* with the same dict write two containers out of which the same set of
\* (name, text) pairs is read (the pairs of the dict), and no step of a call
\* changes the dict it was given.
C11_PackTwiceSameContent ==
    mode = "pack" =>
        /\ file_dict = dict0
        /\ \A i \in 1..Len(extracts) : Pairs(extracts[i]) = Pairs(dict0)
        /\ Len(extracts) = 2 => Pairs(extracts[1]) = Pairs(extracts[2])

C11_Witness ==
    /\ mode = "pack" /\ pc = "done"
    /\ Len(extracts) = 2
    /\ Len(file_dict) = 2
    /\ Cardinality(Pairs(extracts[2])) = 2
    /\ Pairs(extracts[1]) = Pairs(extracts[2])

AllEmpty == edited_files = <<>> /\ edited_zip = <<>> /\ edited_content = <<>>

\* C12 as stated: whenever a script run ends with files in the uploader and
\* without a click on "Run edit", edited_files, edited_zip and edited_content
\* are empty.
C12_EmptyAfterEveryRerun ==
    (mode = "ui" /\ uploaded_files # <<>> /\ script.event # "run_edit") => AllEmpty

\* C12: a script run that reaches the edit tab with files in the uploader
\* resets edited_files, edited_zip and edited_content before the "Run edit"
\* handler, so they are empty at its end unless "Run edit" was clicked; and no
\* run with files in the uploader observes a click on "Save (edited)".  The
\* run that "Reset chatbot" cuts short never reaches the edit tab.
C12_EmptyAfterEditTabRuns ==
    (mode = "ui" /\ uploaded_files # <<>>) =>
        /\ (script.reached # "chat" /\ script.event # "run_edit") => AllEmpty
        /\ ~script.saved

C12_Witness ==
    /\ mode = "ui" /\ uploaded_files # <<>>
    /\ script.event = "save_edited" /\ script.reached = "end"
    /\ ~script.saved
    /\ AllEmpty

\* C13: in every state of the session edited_zip and edited_files are never
\* both non-empty, edited_zip is non-empty only when is_zip is true,
\* edited_files is non-empty only when is_zip is false, and edited_content is
\* the empty string, so the display branch of a single edited content is
\* never taken.
C13_EditedResultsExclusive ==
    mode = "ui" =>
        /\ ~(edited_zip # <<>> /\ edited_files # <<>>)
        /\ (edited_zip # <<>> => is_zip)
        /\ (edited_files # <<>> => ~is_zip)
        /\ edited_content = <<>>
        /\ Shown(session_state) # "edited_content"

C13_Witness ==
    /\ mode = "ui"
    /\ script.event = "save_edited" /\ script.saved
    /\ Len(edited_files) = 2
    /\ \E k \in 1..2 : edited_files[k].text = <<>>

\* The service answered with a text that is not empty.
Answered(resp) ==
    /\ resp.status = "ok"
    /\ resp.choices # <<>>
    /\ ~resp.choices[1].isnone
    /\ resp.choices[1].content # <<>>

Last(h, n) == SubSeq(h, Len(h) - n + 1, Len(h))

\* C14: chat_history always begins with the system message and holds no other
\* system message; every assistant entry is non-empty and comes right after a
\* user entry; after a message whose ai_chat call made no request, failed or
\* got no text the history ends with that user message, after an answered one
\* with the message and the answer; "Reset chatbot" leaves exactly the system
\* message; and any other run only appends to the history.
C14_ChatHistoryShape ==
    /\ [](mode = "ui" =>
            /\ chat_history # <<>> /\ chat_history[1] = SystemMessage
            /\ \A k \in 2..Len(chat_history) : chat_history[k].role # "system"
            /\ \A k \in 1..Len(chat_history) :
                  chat_history[k].role = "assistant" =>
                      /\ chat_history[k].content # <<>>
                      /\ k > 1 /\ chat_history[k - 1].role = "user"
            /\ (script.event = "chat" /\ ~Answered(script.resp)) =>
                  Last(chat_history, 1) = <<Message("user", script.msg)>>
            /\ (script.event = "chat" /\ Answered(script.resp)) =>
                  Last(chat_history, 2) =
                      <<Message("user", script.msg),
                        Message("assistant", script.resp.choices[1].content)>>
            /\ script.event = "reset_chat" => chat_history = <<SystemMessage>>)
    /\ [][mode = "ui" =>
            \/ script'.event = "reset_chat"
            \/ /\ Len(chat_history) <= Len(chat_history')
               /\ SubSeq(chat_history', 1, Len(chat_history)) = chat_history]_vars

C14_Witness ==
    /\ mode = "ui"
    /\ script.event = "chat" /\ Answered(script.resp)
    /\ Len(chat_history) = 4
    /\ chat_history[2].role = "user" /\ chat_history[3].role = "user"
    /\ chat_history[4].role = "assistant"

====
